---- MODULE Spec2Model ----
(***************************************************************************)
(* Model of the Jellyfin media source of Home Assistant                    *)
(* (homeassistant/components/jellyfin/media_source.py and const.py).       *)
(*                                                                         *)
(* JellyfinSource has two entry points, async_resolve_media and            *)
(* async_browse_media.  Each is a coroutine that hands its blocking API    *)
(* calls (get_item, get_media_folders, user_items) to the executor and     *)
(* continues when the call returns.  A coroutine is modelled by an         *)
(* operator of the responses received so far: it yields Await(call) when   *)
(* it needs a response it does not have yet, Return(value) when it         *)
(* returns and Raise(...) when an exception leaves it.  The actions feed   *)
(* the responses in, one executor job at a time.                           *)
(***************************************************************************)
EXTENDS Naturals, Sequences, FiniteSets

VARIABLES
    pc,          \* "idle", the API call being awaited, or "done"
    op,          \* entry point in progress: "none", "resolve", "browse"
    identifier,  \* MediaSourceItem.identifier of the request ("" = absent)
    item_resp,   \* Option: response of api.get_item
    folders_resp,\* Option: response["Items"] of api.get_media_folders
    items_resp,  \* Option: result["Items"] of api.user_items
    calls,       \* API calls handed to the executor by the current request
    result       \* Option: outcome of the finished request

vars == <<pc, op, identifier, item_resp, folders_resp, items_resp, calls, result>>

(***************************************************************************)
(* Bounds of the model.                                                    *)
(***************************************************************************)
MaxItems == 2    \* longest listing a server call returns
MaxKey == 2      \* names and index numbers range over 1..MaxKey

(***************************************************************************)
(* Python values: None / optional values, and coroutine outcomes.          *)
(***************************************************************************)
None == <<>>
Some(x) == <<x>>
Get(o) == o[1]

Return(v) == [kind |-> "return", val |-> v]
Raise(e, m, v) == [kind |-> "raise", exc |-> e, msg |-> m, value |-> v]
Await(f, params) == [kind |-> "await", fn |-> f, args |-> params]

(***************************************************************************)
(* Constants of const.py and of the imported modules.  The ITEM_ and       *)
(* MEDIA_ names are the ones media_source.py imports; their values are the *)
(* type names of the Jellyfin and media player APIs.                       *)
(***************************************************************************)
JELLYFIN_DOMAIN == "jellyfin"   \* DOMAIN of const.py (a reserved word here)
COLLECTION_TYPE_MOVIES == "movies"
COLLECTION_TYPE_TVSHOWS == "tvshows"
COLLECTION_TYPE_MUSIC == "music"
SUPPORTED_COLLECTION_TYPES == <<COLLECTION_TYPE_MOVIES, COLLECTION_TYPE_TVSHOWS>>
MAX_STREAMING_BITRATE == "140000000"

ITEM_TYPE_LIBRARY == "CollectionFolder"
ITEM_TYPE_ARTIST == "MusicArtist"
ITEM_TYPE_ALBUM == "MusicAlbum"
ITEM_TYPE_AUDIO == "Audio"
MEDIA_TYPE_AUDIO == "Audio"
MEDIA_TYPE_NONE == ""
ITEM_KEY_MEDIA_SOURCES == "MediaSources"
ITEM_KEY_NAME == "Name"
ITEM_KEY_INDEX_NUMBER == "IndexNumber"

MEDIA_CLASS_DIRECTORY == "directory"
MEDIA_CLASS_ARTIST == "artist"
MEDIA_CLASS_ALBUM == "album"
MEDIA_CLASS_TRACK == "track"

\* JellyfinSource.name and the client configuration read by the URL helpers
name == "Jellyfin"
url == "http://jellyfin/"
auth_token == "TOKEN"
auth_user_id == "USER"
app_device_id == "DEVICE"

(***************************************************************************)
(* mimetypes.guess_type(path): the extension is what follows the last dot  *)
(* of the last path component (a leading dot starts no extension); the     *)
(* type is looked up by extension, None when the extension is unknown.     *)
(* A path is a sequence of characters.                                     *)
(***************************************************************************)
PathMp3 == <<"/", "m", "/", "s", ".", "m", "p", "3">>
PathXyz == <<"/", "m", ".", "m", "p", "3", "/", "s", ".", "x", "y", "z">>
PathNoExt == <<"/", "m", ".", "m", "p", "3", "/", "s">>

splitext(path) ==
    LET n == Len(path)
        slashes == {i \in 1..n : path[i] = "/"}
        base == IF slashes = {} THEN 1
                ELSE (CHOOSE i \in slashes : \A j \in slashes : j <= i) + 1
        dots == {i \in base..n : path[i] = "." /\ \E j \in base..(i-1) : path[j] # "."}
    IN IF dots = {} THEN <<>>
       ELSE LET d == CHOOSE i \in dots : \A j \in dots : j <= i
            IN SubSeq(path, d, n)

guess_type(path) ==
    LET ext == splitext(path)
    IN IF ext = <<".", "m", "p", "3">> THEN Some("audio/mpeg")
       ELSE IF ext = <<".", "f", "l", "a", "c">> THEN Some("audio/x-flac")
       ELSE None

(***************************************************************************)
(* BrowseMediaSource and PlayMedia objects.  children and                  *)
(* children_media_class default to None and are assigned later.            *)
(***************************************************************************)
BrowseMediaSource(ident, media_class, media_content_type, title, can_play, can_expand, thumbnail, children_media_class) ==
    [domain |-> JELLYFIN_DOMAIN,
     identifier |-> ident,
     media_class |-> media_class,
     media_content_type |-> media_content_type,
     title |-> title,
     can_play |-> can_play,
     can_expand |-> can_expand,
     thumbnail |-> thumbnail,
     children |-> None,
     children_media_class |-> children_media_class]

PlayMedia(stream_url, mime_type) == [url |-> stream_url, mime_type |-> mime_type]

(***************************************************************************)
(* Control flow of a coroutine: Then(o, rest) runs rest on the value of o  *)
(* when o returns; an await or a raised exception passes through.          *)
(* With(v, rest) names a value.                                            *)
(***************************************************************************)
Then(o, rest(_)) == IF o.kind # "return" THEN o ELSE rest(o.val)
With(v, rest(_)) == rest(v)

(***************************************************************************)
(* sorted(items, key=lambda k: k[key]): Python's sort is stable (for short *)
(* lists it is an insertion sort): each item goes after the items already  *)
(* placed whose key is not greater.                                        *)
(***************************************************************************)
RECURSIVE insort(_, _, _)
insort(placed, item, key) ==
    IF placed = <<>> THEN <<item>>
    ELSE IF placed[Len(placed)][key] <= item[key] THEN Append(placed, item)
    ELSE Append(insort(SubSeq(placed, 1, Len(placed) - 1), item, key), placed[Len(placed)])

RECURSIVE sorted(_, _)
sorted(items, key) ==
    IF items = <<>> THEN <<>>
    ELSE insort(sorted(SubSeq(items, 1, Len(items) - 1), key), items[Len(items)], key)

(***************************************************************************)
(* A list comprehension [build(x) for x in xs], given the outcome of each  *)
(* build: the first build (in list order) that does not return leaves the  *)
(* comprehension, otherwise the list of the values is returned.            *)
(***************************************************************************)
RECURSIVE Comprehension(_, _)
Comprehension(outs, n) ==
    IF n = 0 THEN Return(<<>>)
    ELSE Then(Comprehension(outs, n - 1), LAMBDA front :
         Then(outs[n], LAMBDA last : Return(Append(front, last))))

(***************************************************************************)
(* URL helpers and MIME type.                                              *)
(***************************************************************************)
_get_thumbnail_url(media_item) ==
    LET item_id == media_item.Id
        image_tags == media_item.ImageTags
        api_key == auth_token
    IN IF "Primary" \in DOMAIN image_tags
       THEN Some(<<url, "Items/", item_id, "/Images/Primary?Tag=", image_tags.Primary,
                   "&api_key=", api_key>>)
       ELSE None

_get_audio_stream_url(media_item) ==
    <<url, "Audio/", media_item.Id, "/universal?UserId=", auth_user_id,
      "&DeviceId=", app_device_id, "&api_key=", auth_token,
      "&MaxStreamingBitrate=", MAX_STREAMING_BITRATE>>

_get_stream_url(media_item) ==
    IF media_item.MediaType = MEDIA_TYPE_AUDIO
    THEN Return(_get_audio_stream_url(media_item))
    ELSE Raise("BrowseError", "Unsupported media type", media_item.MediaType)

_media_mime_type(media_item) ==
    IF Len(media_item.MediaSources) = 0
    THEN Raise("IndexError", "list index out of range", ITEM_KEY_MEDIA_SOURCES)
    ELSE With(media_item.MediaSources[1].Path, LAMBDA path :
         With(guess_type(path), LAMBDA mime_type :
            IF mime_type # None
            THEN Return(Get(mime_type))
            ELSE Raise("BrowseError", "Unable to determine mime type for path", path)))

(***************************************************************************)
(* _get_children: one user_items call; Fields is added for tracks only.    *)
(***************************************************************************)
_get_children(parent_id, item_type, response) ==
    IF response = None
    THEN Await("user_items",
               [Recursive |-> "true",
                ParentId |-> parent_id,
                IncludeItemTypes |-> item_type,
                Fields |-> IF item_type = ITEM_TYPE_AUDIO
                           THEN Some(ITEM_KEY_MEDIA_SOURCES) ELSE None])
    ELSE Return(Get(response))

(***************************************************************************)
(* Builders, leaf to root.                                                 *)
(***************************************************************************)
\* variant: a track node that is also marked expandable
_build_track_expandable(track) ==
    Then(_media_mime_type(track), LAMBDA mime_type :
        Return(BrowseMediaSource(Some(track.Id), MEDIA_CLASS_TRACK, mime_type,
                                 track.Name, TRUE, TRUE, _get_thumbnail_url(track), None)))

_build_track(track) ==
    Then(_media_mime_type(track), LAMBDA mime_type :
        Return(BrowseMediaSource(Some(track.Id), MEDIA_CLASS_TRACK, mime_type,
                                 track.Name, TRUE, FALSE, _get_thumbnail_url(track), None)))

\* variant: tracks ordered by name, as artists and albums are
_build_tracks_by_name(album_id, response) ==
    Then(_get_children(album_id, ITEM_TYPE_AUDIO, response), LAMBDA fetched :
    With(sorted(fetched, ITEM_KEY_NAME), LAMBDA tracks :
        Comprehension([i \in 1..Len(tracks) |-> _build_track(tracks[i])], Len(tracks))))

\* variant: a track that cannot be built is left out of the list
_build_tracks_skipping(album_id, response) ==
    Then(_get_children(album_id, ITEM_TYPE_AUDIO, response), LAMBDA fetched :
    With(SelectSeq(sorted(fetched, ITEM_KEY_INDEX_NUMBER),
                   LAMBDA track : _build_track(track).kind = "return"), LAMBDA tracks :
        Comprehension([i \in 1..Len(tracks) |-> _build_track(tracks[i])], Len(tracks))))

_build_tracks(album_id, response) ==
    Then(_get_children(album_id, ITEM_TYPE_AUDIO, response), LAMBDA fetched :
    With(sorted(fetched, ITEM_KEY_INDEX_NUMBER), LAMBDA tracks :
        Comprehension([i \in 1..Len(tracks) |-> _build_track(tracks[i])], Len(tracks))))

_build_album(album, include_children, response) ==
    With(BrowseMediaSource(Some(album.Id), MEDIA_CLASS_ALBUM, MEDIA_TYPE_NONE,
                           album.Name, FALSE, TRUE, _get_thumbnail_url(album), None),
         LAMBDA node :
            IF include_children
            THEN Then(_build_tracks(album.Id, response), LAMBDA children :
                    Return([node EXCEPT !.children_media_class = Some(MEDIA_CLASS_TRACK),
                                        !.children = Some(children)]))
            ELSE Return(node))

_build_albums(artist_id, response) ==
    Then(_get_children(artist_id, ITEM_TYPE_ALBUM, response), LAMBDA fetched :
    With(sorted(fetched, ITEM_KEY_NAME), LAMBDA albums :
        Comprehension([i \in 1..Len(albums) |-> _build_album(albums[i], FALSE, None)],
                      Len(albums))))

_build_artist(artist, include_children, response) ==
    With(BrowseMediaSource(Some(artist.Id), MEDIA_CLASS_ARTIST, MEDIA_TYPE_NONE,
                           artist.Name, FALSE, TRUE, _get_thumbnail_url(artist), None),
         LAMBDA node :
            IF include_children
            THEN Then(_build_albums(artist.Id, response), LAMBDA children :
                    Return([node EXCEPT !.children_media_class = Some(MEDIA_CLASS_ALBUM),
                                        !.children = Some(children)]))
            ELSE Return(node))

\* variant: artists in the order the server listed them
_build_artists_unsorted(library_id, response) ==
    Then(_get_children(library_id, ITEM_TYPE_ARTIST, response), LAMBDA artists :
        Comprehension([i \in 1..Len(artists) |-> _build_artist(artists[i], FALSE, None)],
                      Len(artists)))

_build_artists(library_id, response) ==
    Then(_get_children(library_id, ITEM_TYPE_ARTIST, response), LAMBDA fetched :
    With(sorted(fetched, ITEM_KEY_NAME), LAMBDA artists :
        Comprehension([i \in 1..Len(artists) |-> _build_artist(artists[i], FALSE, None)],
                      Len(artists))))

_build_music_library(library, include_children, response) ==
    With(BrowseMediaSource(Some(library.Id), MEDIA_CLASS_DIRECTORY, MEDIA_TYPE_NONE,
                           library.Name, FALSE, TRUE, None, None),
         LAMBDA node :
            IF include_children
            THEN Then(_build_artists(library.Id, response), LAMBDA children :
                    Return([node EXCEPT !.children_media_class = Some(MEDIA_CLASS_ARTIST),
                                        !.children = Some(children)]))
            ELSE Return(node))

\* variant: every library is built as a music library
_build_library_any_collection(library, include_children, response) ==
    _build_music_library(library, include_children, response)

_build_library(library, include_children, response) ==
    IF library.CollectionType = None
    THEN Raise("KeyError", "CollectionType", None)
    ELSE With(Get(library.CollectionType), LAMBDA collection_type :
            IF collection_type = COLLECTION_TYPE_MUSIC
            THEN _build_music_library(library, include_children, response)
            ELSE Raise("BrowseError", "Unsupported collection type", collection_type))

InList(x, list) == \E i \in 1..Len(list) : list[i] = x

_get_libraries(response) ==
    IF response = None
    THEN Await("get_media_folders", None)
    ELSE Return(SelectSeq(Get(response), LAMBDA library :
                   /\ library.CollectionType # None
                   /\ InList(Get(library.CollectionType), SUPPORTED_COLLECTION_TYPES)))

_build_libraries(response) ==
    With(BrowseMediaSource(None, MEDIA_CLASS_DIRECTORY, MEDIA_TYPE_NONE, name,
                           FALSE, TRUE, None, Some(MEDIA_CLASS_DIRECTORY)),
         LAMBDA base :
    Then(_get_libraries(response), LAMBDA libraries :
    Then(Comprehension([i \in 1..Len(libraries) |-> _build_library(libraries[i], FALSE, None)],
                       Len(libraries)),
         LAMBDA children : Return([base EXCEPT !.children = Some(children)]))))

(***************************************************************************)
(* The two entry points.                                                   *)
(***************************************************************************)
\* variant: the MIME type is determined before the stream URL
async_resolve_media_mime_first(ident, item) ==
    IF item = None
    THEN Await("get_item", ident)
    ELSE Then(_media_mime_type(Get(item)), LAMBDA mime_type :
         Then(_get_stream_url(Get(item)), LAMBDA stream_url :
            Return(PlayMedia(stream_url, mime_type))))

async_resolve_media(ident, item) ==
    IF item = None
    THEN Await("get_item", ident)
    ELSE Then(_get_stream_url(Get(item)), LAMBDA stream_url :
         Then(_media_mime_type(Get(item)), LAMBDA mime_type :
            Return(PlayMedia(stream_url, mime_type))))

\* variant: whatever is neither library nor artist is browsed as an album
async_browse_media_else_album(ident, item, folders, items) ==
    IF ident = ""
    THEN _build_libraries(folders)
    ELSE IF item = None
    THEN Await("get_item", ident)
    ELSE With(Get(item).Type, LAMBDA item_type :
            IF item_type = ITEM_TYPE_LIBRARY THEN _build_library(Get(item), TRUE, items)
            ELSE IF item_type = ITEM_TYPE_ARTIST THEN _build_artist(Get(item), TRUE, items)
            ELSE _build_album(Get(item), TRUE, items))

async_browse_media(ident, item, folders, items) ==
    IF ident = ""
    THEN _build_libraries(folders)
    ELSE IF item = None
    THEN Await("get_item", ident)
    ELSE With(Get(item).Type, LAMBDA item_type :
            IF item_type = ITEM_TYPE_LIBRARY THEN _build_library(Get(item), TRUE, items)
            ELSE IF item_type = ITEM_TYPE_ARTIST THEN _build_artist(Get(item), TRUE, items)
            ELSE IF item_type = ITEM_TYPE_ALBUM THEN _build_album(Get(item), TRUE, items)
            ELSE Raise("BrowseError", "Unsupported item type", item_type))

(***************************************************************************)
(* The server: what the API calls may answer.  An item is a dict with the  *)
(* keys the source reads; CollectionType may be missing (the source tests  *)
(* for it), the other keys are always present.  A listing answers with     *)
(* items of the requested type, each with an id of its own.                *)
(***************************************************************************)
Names == 1..MaxKey
IndexNumbers == 1..MaxKey
ImageTagsSet == {[Backdrop |-> "b"], [Backdrop |-> "b", Primary |-> "t"]}
ListedMediaSources == {<<>>, <<[Path |-> PathMp3]>>, <<[Path |-> PathXyz]>>}
MediaSourcesSet ==
    ListedMediaSources \cup {<<[Path |-> PathNoExt]>>, <<[Path |-> PathXyz], [Path |-> PathMp3]>>}
CollectionTypes ==
    {None, Some(COLLECTION_TYPE_MUSIC), Some(COLLECTION_TYPE_MOVIES),
     Some(COLLECTION_TYPE_TVSHOWS), Some("books")}
Identifiers == {"", "p"}
ChildIds == <<"c1", "c2", "c3", "c4">>

Item(id, nm, ty, ct, ix, tags, mt, ms) ==
    [Id |-> id, Name |-> nm, Type |-> ty, CollectionType |-> ct, IndexNumber |-> ix,
     ImageTags |-> tags, MediaType |-> mt, MediaSources |-> ms]

Libraries(id) ==
    {Item(id, nm, ITEM_TYPE_LIBRARY, ct, 1, [Backdrop |-> "b"], "Unknown", <<>>) :
        nm \in Names, ct \in CollectionTypes}
Artists(id) ==
    {Item(id, nm, ITEM_TYPE_ARTIST, None, 1, tags, "Unknown", <<>>) :
        nm \in Names, tags \in ImageTagsSet}
Albums(id) ==
    {Item(id, nm, ITEM_TYPE_ALBUM, None, 1, tags, "Unknown", <<>>) :
        nm \in Names, tags \in ImageTagsSet}
\* a track's name runs against its index number, so the two orders differ
Tracks(id, sources) ==
    {Item(id, MaxKey + 1 - ix, ITEM_TYPE_AUDIO, None, ix, tags, MEDIA_TYPE_AUDIO, ms) :
        ix \in IndexNumbers, tags \in ImageTagsSet, ms \in sources}
Videos(id) ==
    {Item(id, nm, "Movie", None, 1, [Backdrop |-> "b"], "Video", ms) :
        nm \in Names, ms \in MediaSourcesSet}

ItemsOfType(id, item_type) ==
    IF item_type = ITEM_TYPE_LIBRARY THEN Libraries(id)
    ELSE IF item_type = ITEM_TYPE_ARTIST THEN Artists(id)
    ELSE IF item_type = ITEM_TYPE_ALBUM THEN Albums(id)
    ELSE Tracks(id, ListedMediaSources)

\* the lists of exactly n items of a type, item i with the id ChildIds[i]
RECURSIVE ListingsOfLen(_, _)
ListingsOfLen(item_type, n) ==
    IF n = 0 THEN {<<>>}
    ELSE {Append(l, x) : l \in ListingsOfLen(item_type, n - 1),
                         x \in ItemsOfType(ChildIds[n], item_type)}

Listings(item_type) == UNION {ListingsOfLen(item_type, n) : n \in 0..MaxItems}

GetItemResponses(id) ==
    Libraries(id) \cup Artists(id) \cup Albums(id) \cup Tracks(id, MediaSourcesSet) \cup Videos(id)

GetMediaFoldersResponses == Listings(ITEM_TYPE_LIBRARY)

UserItemsResponses(params) == Listings(params.IncludeItemTypes)

(***************************************************************************)
(* The state machine: a request runs its coroutine up to the next await,   *)
(* the executor job answers, the coroutine runs on.                        *)
(***************************************************************************)
Outcome(o, ident, item, folders, items) ==
    IF o = "resolve" THEN async_resolve_media(ident, item)
    ELSE async_browse_media(ident, item, folders, items)

\* run the coroutine with the responses it has got; park it at its next await
Advance(o, ident, item, folders, items) ==
    \E out \in {Outcome(o, ident, item, folders, items)} :
       /\ op' = o
       /\ identifier' = ident
       /\ item_resp' = item
       /\ folders_resp' = folders
       /\ items_resp' = items
       /\ IF out.kind = "await"
          THEN /\ pc' = out.fn
               /\ calls' = Append(calls, [fn |-> out.fn, args |-> out.args])
               /\ result' = None
          ELSE /\ pc' = "done"
               /\ calls' = calls
               /\ result' = Some(out)

Init ==
    /\ pc = "idle"
    /\ op = "none"
    /\ identifier = ""
    /\ item_resp = None
    /\ folders_resp = None
    /\ items_resp = None
    /\ calls = <<>>
    /\ result = None

Resolve ==
    /\ pc = "idle"
    /\ \E ident \in Identifiers \ {""} : Advance("resolve", ident, None, None, None)

Browse ==
    /\ pc = "idle"
    /\ \E ident \in Identifiers : Advance("browse", ident, None, None, None)

GetItem ==
    /\ pc = "get_item"
    /\ \E media_item \in GetItemResponses(identifier) :
          Advance(op, identifier, Some(media_item), folders_resp, items_resp)

GetMediaFolders ==
    /\ pc = "get_media_folders"
    /\ \E libraries \in GetMediaFoldersResponses :
          Advance(op, identifier, item_resp, Some(libraries), items_resp)

UserItems ==
    /\ pc = "user_items"
    /\ \E items \in UserItemsResponses(calls[Len(calls)].args) :
          Advance(op, identifier, item_resp, folders_resp, Some(items))

\* the host takes the outcome; nothing is kept between calls
Finish ==
    /\ pc = "done"
    /\ pc' = "idle"
    /\ op' = "none"
    /\ identifier' = ""
    /\ item_resp' = None
    /\ folders_resp' = None
    /\ items_resp' = None
    /\ calls' = <<>>
    /\ result' = None

Next == Resolve \/ Browse \/ GetItem \/ GetMediaFolders \/ UserItems \/ Finish

Spec == Init /\ [][Next]_vars

(***************************************************************************)
(* Properties.                                                             *)
(***************************************************************************)
Finished == pc = "done"
Returned == Finished /\ Get(result).kind = "return"
RaisedBrowseError(m) ==
    /\ Finished
    /\ Get(result).kind = "raise"
    /\ Get(result).exc = "BrowseError"
    /\ Get(result).msg = m

RootBrowse == op = "browse" /\ identifier = ""
\* browse(identifier) of an item of the given type, item fetched
ItemBrowse(item_type) ==
    /\ op = "browse"
    /\ identifier # ""
    /\ item_resp # None
    /\ Get(item_resp).Type = item_type

IsMusic(library) == library.CollectionType = Some(COLLECTION_TYPE_MUSIC)
NonDecreasing(nums) == \A i \in 1..Len(nums) : \A j \in i..Len(nums) : nums[i] <= nums[j]
PlayableXorExpandable(node) == node.can_play # node.can_expand
MimeKnown(item) ==
    /\ Len(item.MediaSources) > 0
    /\ guess_type(item.MediaSources[1].Path) # None
GetItemCall == [fn |-> "get_item", args |-> identifier]

\* C1: the children of the root node returned by browse with an absent
\* identifier are exactly the music libraries of the get_media_folders
\* listing: one child for each music library, none for any other library.
C1_RootChildrenAreMusicLibraries ==
    (RootBrowse /\ Returned) =>
        LET libraries == Get(folders_resp)
            children == Get(Get(result).val.children)
        IN \A i \in 1..Len(libraries) :
              Cardinality({c \in 1..Len(children) :
                              children[c].identifier = Some(libraries[i].Id)})
                 = IF IsMusic(libraries[i]) THEN 1 ELSE 0

\* C2: browse of a music library whose artist listing returned N items
\* returns a node with exactly N children, each of class artist, with
\* non-decreasing names.
C2_LibraryChildrenSortedArtists ==
    (ItemBrowse(ITEM_TYPE_LIBRARY) /\ IsMusic(Get(item_resp)) /\ items_resp # None) =>
        /\ Returned
        /\ Get(result).val.children # None
        /\ LET children == Get(Get(result).val.children)
           IN /\ Len(children) = Len(Get(items_resp))
              /\ \A i \in 1..Len(children) : children[i].media_class = MEDIA_CLASS_ARTIST
              /\ NonDecreasing([i \in 1..Len(children) |-> children[i].title])

C2_Witness ==
    /\ ItemBrowse(ITEM_TYPE_LIBRARY) /\ IsMusic(Get(item_resp)) /\ items_resp # None
    /\ Returned
    /\ Len(Get(items_resp)) >= 2
    /\ Get(items_resp)[1].Name > Get(items_resp)[2].Name
    /\ Len(Get(Get(result).val.children)) = Len(Get(items_resp))

\* the listed item a child node was built from (ids are unique in a listing)
ListedItem(child) ==
    LET listed == Get(items_resp)
    IN listed[CHOOSE t \in 1..Len(listed) : Some(listed[t].Id) = child.identifier]

AlbumChildrenAreSortedTracks ==
    /\ Returned
    /\ Get(result).val.children # None
    /\ LET children == Get(Get(result).val.children)
       IN /\ Len(children) = Len(Get(items_resp))
          /\ NonDecreasing([i \in 1..Len(children) |-> ListedItem(children[i]).IndexNumber])
          /\ \A i \in 1..Len(children) : children[i].can_play /\ ~children[i].can_expand

\* C3 as stated: browse of an album whose track listing returned N items
\* returns a node with exactly N children in non-decreasing index number
\* order, every child playable and not expandable.  (Stated for listings in
\* which every track has a media source, so that what refutes it is the
\* documented MIME failure and not the index failure of C4.)
C3_AlbumAlwaysReturnsTracks ==
    (ItemBrowse(ITEM_TYPE_ALBUM) /\ items_resp # None
        /\ \A t \in 1..Len(Get(items_resp)) : Get(items_resp)[t].MediaSources # <<>>) =>
        AlbumChildrenAreSortedTracks

\* C3 as amended: browse of an album returns such a node when the MIME type
\* of every listed track can be determined, and returns no node otherwise.
C3_AlbumReturnsTracksWhenMimeKnown ==
    (ItemBrowse(ITEM_TYPE_ALBUM) /\ items_resp # None) =>
        IF \A t \in 1..Len(Get(items_resp)) : MimeKnown(Get(items_resp)[t])
        THEN AlbumChildrenAreSortedTracks
        ELSE Finished /\ Get(result).kind = "raise"

C3_Witness ==
    /\ ItemBrowse(ITEM_TYPE_ALBUM) /\ items_resp # None
    /\ Returned
    /\ Len(Get(items_resp)) >= 2
    /\ Get(items_resp)[1].IndexNumber > Get(items_resp)[2].IndexNumber
    /\ Len(Get(Get(result).val.children)) = Len(Get(items_resp))

\* C4: resolve of an audio item whose media-sources list is empty, or whose
\* first media source path yields no MIME type, fails with the "unable to
\* determine mime type" BrowseError, never with a raw index failure.
C4_MimeFailureIsBrowseError ==
    (op = "resolve" /\ item_resp # None
        /\ Get(item_resp).MediaType = MEDIA_TYPE_AUDIO /\ ~MimeKnown(Get(item_resp))) =>
        RaisedBrowseError("Unable to determine mime type for path")

\* C5: resolve of an item whose MediaType is not Audio fails with the
\* "unsupported media type" BrowseError carrying that media type, whatever
\* its media-sources list holds, and returns no PlayMedia.
C5_NonAudioIsUnsupportedMediaType ==
    (op = "resolve" /\ item_resp # None /\ Get(item_resp).MediaType # MEDIA_TYPE_AUDIO) =>
        /\ RaisedBrowseError("Unsupported media type")
        /\ Get(result).value = Get(item_resp).MediaType

C5_Witness ==
    /\ op = "resolve" /\ item_resp # None
    /\ Get(item_resp).MediaType = "Video"
    /\ Get(item_resp).MediaSources = <<>>
    /\ RaisedBrowseError("Unsupported media type")

C7_OtherTypesAreUnsupported ==
    (op = "browse" /\ identifier # "" /\ item_resp # None
        /\ Get(item_resp).Type \notin {ITEM_TYPE_LIBRARY, ITEM_TYPE_ARTIST, ITEM_TYPE_ALBUM}) =>
        /\ RaisedBrowseError("Unsupported item type")
        /\ Get(result).value = Get(item_resp).Type
        /\ calls = <<GetItemCall>>

C7_Witness ==
    /\ ItemBrowse(ITEM_TYPE_AUDIO)
    /\ RaisedBrowseError("Unsupported item type")
    /\ calls = <<GetItemCall>>

\* C8: in every tree browse returns, the node and each of its children are
\* playable or expandable but not both: tracks playable, every other node
\* expandable; the root node has no identifier and is not playable.
C8_PlayableXorExpandable ==
    (op = "browse" /\ Returned) =>
        LET node == Get(result).val
            nodes == {node} \cup
                     (IF node.children = None THEN {}
                      ELSE {Get(node.children)[i] : i \in 1..Len(Get(node.children))})
        IN /\ \A n \in nodes :
                 /\ PlayableXorExpandable(n)
                 /\ n.can_play <=> n.media_class = MEDIA_CLASS_TRACK
           /\ RootBrowse => (node.identifier = None /\ ~node.can_play)

C8_Witness ==
    /\ ItemBrowse(ITEM_TYPE_ALBUM)
    /\ Returned
    /\ Len(Get(Get(result).val.children)) >= 2

\* C9: in the tree root browse returns, every (music) library of the listing
\* is a child that carries its own children sequence, its artists.
C9_RootLibrariesExpanded ==
    (RootBrowse /\ Returned) =>
        LET libraries == Get(folders_resp)
            children == Get(Get(result).val.children)
        IN \A i \in 1..Len(libraries) :
              IsMusic(libraries[i]) =>
                 \E c \in 1..Len(children) :
                    /\ children[c].identifier = Some(libraries[i].Id)
                    /\ children[c].children # None

\* C10: browse fails as a whole: when a node of the requested tree cannot be
\* built (a listed track of the album whose MIME type cannot be determined,
\* a listed library of an allowed but unsupported collection type), the call
\* raises and returns no node.
C10_BrowseFailsAtomically ==
    /\ (ItemBrowse(ITEM_TYPE_ALBUM) /\ items_resp # None
           /\ \E t \in 1..Len(Get(items_resp)) : ~MimeKnown(Get(items_resp)[t])) =>
          (Finished /\ Get(result).kind = "raise")
    /\ (RootBrowse /\ folders_resp # None
           /\ \E i \in 1..Len(Get(folders_resp)) :
                 \/ Get(folders_resp)[i].CollectionType = Some(COLLECTION_TYPE_MOVIES)
                 \/ Get(folders_resp)[i].CollectionType = Some(COLLECTION_TYPE_TVSHOWS)) =>
          (Finished /\ Get(result).kind = "raise")

\* the failing track is listed first but sorts last: a child is built before it
C10_Witness ==
    /\ ItemBrowse(ITEM_TYPE_ALBUM) /\ items_resp # None
    /\ Len(Get(items_resp)) >= 2
    /\ ~MimeKnown(Get(items_resp)[1])
    /\ MimeKnown(Get(items_resp)[2])
    /\ Get(items_resp)[1].IndexNumber > Get(items_resp)[2].IndexNumber
    /\ Finished /\ Get(result).kind = "raise"

====
